---- MODULE Spec2Model ----
(***************************************************************************)
(* Binary resolution helpers of bvm (src/plugins/helpers.rs).              *)
(*                                                                         *)
(* The helpers are pure functions of a loaded PluginsManifest, of the      *)
(* selectors they are given and, for the global lookup, of what the        *)
(* environment answers.  The state is the manifest snapshot and the last   *)
(* call (operation, arguments, result); every action is one call.          *)
(***************************************************************************)
EXTENDS Integers, Sequences, FiniteSets, TLC

VARIABLES
    binaries,   \* PluginsManifest: the installed BinaryManifestItems
    urls,       \* PluginsManifest: url -> identifier associations
    globals,    \* PluginsManifest: command name -> GlobalBinaryLocation
    op,         \* the helper being called
    args,       \* its arguments
    pc,         \* "call" before the helper has run, "done" after
    env_calls,  \* the calls the helper made on the Environment, in order
    result      \* what the helper returned

vars == <<binaries, urls, globals, op, args, pc, env_calls, result>>

(* ------------------------------ bounds -------------------------------- *)

MaxVersion == 3
MaxBinaries == 2

(* ---------------------------- value types ----------------------------- *)

\* Strings in their lexicographic order (the order of str::cmp on them).
StringOrder == <<"acme", "fmt", "globex", "lint">>

Owners == {"acme", "globex"}
ShortNames == {"fmt", "lint"}
CommandNames == {"fmt", "lint"}
Versions == 1..MaxVersion

NoOwner == "<none>"
\* Option<VersionSelector>::None of a ConfigFileBinary
NoVersion == [lo |-> 0, hi |-> 0, present |-> FALSE]

StrRank(s) == CHOOSE i \in 1..Len(StringOrder) : StringOrder[i] = s

\* Version::to_string
VersionString(v) == <<"1.0.0", "2.0.0", "3.0.0", "4.0.0", "5.0.0">>[v]

BinaryIdentifiers == [owner : Owners, name : ShortNames, version : Versions]

NameSelectors == [owner : Owners \cup {NoOwner}, name : ShortNames]

\* A version range lo..hi; 1..MaxVersion is "any".
VersionSelectors ==
    {vs \in [lo : Versions, hi : Versions, present : {TRUE}] : vs.lo <= vs.hi}

get_identifier(b) == [owner |-> b.owner, name |-> b.name, version |-> b.version]

\* BinaryName::to_selector
to_selector(identifier) == [owner |-> identifier.owner, name |-> identifier.name]

(* ------------------------- BinaryManifestItem ------------------------- *)

Less == "Less"
Equal == "Equal"
Greater == "Greater"

cmp_int(a, b) == IF a < b THEN Less ELSE IF a > b THEN Greater ELSE Equal

\* Ord for the qualified name: owner, then short name.
cmp_name(a, b) ==
    IF a.owner # b.owner THEN cmp_int(StrRank(a.owner), StrRank(b.owner))
    ELSE cmp_int(StrRank(a.name), StrRank(b.name))

\* Ord for BinaryManifestItem: by name, then by version.
cmp(a, b) ==
    IF cmp_name(a, b) # Equal THEN cmp_name(a, b)
    ELSE cmp_int(a.version, b.version)

(* --------------------------- PluginsManifest -------------------------- *)

name_matches(name_selector, b) ==
    /\ b.name = name_selector.name
    /\ name_selector.owner = NoOwner \/ b.owner = name_selector.owner

version_matches(version_selector, b) ==
    /\ version_selector.lo <= b.version
    /\ b.version <= version_selector.hi

\* The queries return a Vec collected from a hash map: the elements are
\* these sets, the order is whatever the map yields.
binaries_matching_name(name_selector) ==
    {b \in binaries : name_matches(name_selector, b)}

binaries_matching_name_and_version(name_selector, version_selector) ==
    {b \in binaries : name_matches(name_selector, b)
                        /\ version_matches(version_selector, b)}

\* The Vec a query yields when the manifest iterates in this order.
matching_in(order, name_selector, version_selector) ==
    SelectSeq(order, LAMBDA b : b \in binaries_matching_name_and_version(name_selector, version_selector))

Orderings(S) ==
    {s \in [1..Cardinality(S) -> S] : \A i, j \in 1..Cardinality(S) : s[i] = s[j] => i = j}

get_binary(identifier) == {b \in binaries : get_identifier(b) = identifier}

(* ------------------------------ results ------------------------------- *)

NoItem == [owner |-> NoOwner, name |-> "", version |-> 0, commands |-> <<>>]

RNone == [kind |-> "None", item |-> NoItem, error |-> "", lines |-> <<>>, path |-> <<>>]
RSome(b) == [kind |-> "Some", item |-> b, error |-> "", lines |-> <<>>, path |-> <<>>]
ROk(b) == [kind |-> "Ok", item |-> b, error |-> "", lines |-> <<>>, path |-> <<>>]
ROkPath(p) == [kind |-> "Ok", item |-> NoItem, error |-> "", lines |-> <<>>, path |-> p]
RErr(e, ls) == [kind |-> "Err", item |-> NoItem, error |-> e, lines |-> ls, path |-> <<>>]
RPanic(e) == [kind |-> "Panic", item |-> NoItem, error |-> e, lines |-> <<>>, path |-> <<>>]

(* ------------------------------ helpers ------------------------------- *)

\* Mutant: compares the short names instead of the owners.
get_have_same_owner_by_name(bs) ==
    IF Len(bs) = 0 THEN TRUE
    ELSE \A i \in 1..Len(bs) : bs[i].name = bs[1].name

get_have_same_owner(bs) ==
    IF Len(bs) = 0 THEN TRUE
    ELSE \A i \in 1..Len(bs) : bs[i].owner = bs[1].owner

\* The loop of get_latest_binary from position i with the latest so far.
RECURSIVE latest_from(_, _, _)
latest_from(bs, i, latest) ==
    IF i > Len(bs) THEN latest
    ELSE IF latest.kind = "Some"
         THEN IF cmp(latest.item, bs[i]) = Less
              THEN latest_from(bs, i + 1, RSome(bs[i]))
              ELSE latest_from(bs, i + 1, latest)
         ELSE latest_from(bs, i + 1, RSome(bs[i]))

\* Mutant: the loop with the comparison turned round.
RECURSIVE earliest_from(_, _, _)
earliest_from(bs, i, latest) ==
    IF i > Len(bs) THEN latest
    ELSE IF latest.kind = "Some"
         THEN IF cmp(latest.item, bs[i]) = Greater
              THEN earliest_from(bs, i + 1, RSome(bs[i]))
              ELSE earliest_from(bs, i + 1, latest)
         ELSE earliest_from(bs, i + 1, RSome(bs[i]))

get_latest_binary_reversed(bs) == earliest_from(bs, 1, RNone)

get_latest_binary(bs) == latest_from(bs, 1, RNone)

\* Vec::sort: a stable sort by cmp.
RECURSIVE insert_sorted(_, _)
insert_sorted(sorted, b) ==
    IF Len(sorted) = 0 THEN <<b>>
    ELSE IF cmp(b, sorted[Len(sorted)]) = Less
         THEN Append(insert_sorted(SubSeq(sorted, 1, Len(sorted) - 1), b), sorted[Len(sorted)])
         ELSE Append(sorted, b)

RECURSIVE sort(_)
sort(bs) ==
    IF Len(bs) = 0 THEN <<>>
    ELSE insert_sorted(sort(SubSeq(bs, 1, Len(bs) - 1)), bs[Len(bs)])

\* Mutant: the binaries are listed unsorted.
display_binaries_versions_unsorted(bs) ==
    IF Len(bs) = 0 THEN <<>>
    ELSE LET have_same_owner == get_have_same_owner(bs)
         IN  [i \in 1..Len(bs) |->
                IF have_same_owner
                THEN <<VersionString(bs[i].version)>>
                ELSE <<bs[i].owner, bs[i].name, VersionString(bs[i].version)>>]

display_binaries_versions(bs) ==
    IF Len(bs) = 0 THEN <<>>
    ELSE LET sorted == sort(bs)
             have_same_owner == get_have_same_owner(sorted)
         IN  [i \in 1..Len(sorted) |->
                IF have_same_owner
                THEN <<VersionString(sorted[i].version)>>
                ELSE <<sorted[i].owner, sorted[i].name, VersionString(sorted[i].version)>>]

\* Mutant: the first match is returned instead of the latest.
get_binary_with_name_and_version_first(matching, named) ==
    IF Len(matching) = 0
    THEN IF Len(named) = 0
         THEN RErr("NotFound", <<>>)
         ELSE RErr("VersionMismatch", display_binaries_versions(named))
    ELSE IF ~get_have_same_owner(matching)
         THEN RErr("AmbiguousOwner", display_binaries_versions(matching))
         ELSE ROk(matching[1])

\* matching and named are what the two manifest queries returned.
get_binary_with_name_and_version(matching, named) ==
    IF Len(matching) = 0
    THEN IF Len(named) = 0
         THEN RErr("NotFound", <<>>)
         ELSE RErr("VersionMismatch", display_binaries_versions(named))
    ELSE IF ~get_have_same_owner(matching)
         THEN RErr("AmbiguousOwner", display_binaries_versions(matching))
         ELSE ROk(get_latest_binary(matching).item)


\* matching is what the manifest query returned.
get_latest_binary_matching_name_and_version(matching) == get_latest_binary(matching)

(* ------------------- config file binary resolution -------------------- *)

\* PluginsManifest::get_identifier_from_url: the associated identifier, if any.
get_identifier_from_url(path) == IF path \in DOMAIN urls THEN {urls[path]} ELSE {}

\* Mutant: the identifier of any association is used, whatever the path.
get_installed_binary_of_any_url(config_binary, order) ==
    IF DOMAIN urls # {}
    THEN LET identifier == urls[CHOOSE u \in DOMAIN urls : TRUE]
         IN  IF get_binary(identifier) # {}
             THEN RSome(CHOOSE b \in get_binary(identifier) : TRUE)
             ELSE IF config_binary.version.present
                  THEN get_latest_binary_matching_name_and_version(
                           matching_in(order, to_selector(identifier), config_binary.version))
                  ELSE RNone
    ELSE RNone

\* Mutant: the latest binary matching the version selector is preferred to
\* the entry of the identifier itself.
get_installed_binary_latest_first(config_binary, order) ==
    IF get_identifier_from_url(config_binary.path) # {}
    THEN LET identifier == CHOOSE i \in get_identifier_from_url(config_binary.path) : TRUE
             latest == IF config_binary.version.present
                       THEN get_latest_binary_matching_name_and_version(
                                matching_in(order, to_selector(identifier), config_binary.version))
                       ELSE RNone
         IN  IF latest.kind = "Some" THEN latest
             ELSE IF get_binary(identifier) # {}
                  THEN RSome(CHOOSE b \in get_binary(identifier) : TRUE)
                  ELSE RNone
    ELSE RNone

\* order is the order in which the manifest yields its binaries.
get_installed_binary_if_associated_config_file_binary(config_binary, order) ==
    IF get_identifier_from_url(config_binary.path) # {}
    THEN LET identifier == CHOOSE i \in get_identifier_from_url(config_binary.path) : TRUE
         IN  IF get_binary(identifier) # {}
             THEN RSome(CHOOSE b \in get_binary(identifier) : TRUE)
             ELSE IF config_binary.version.present
                  THEN get_latest_binary_matching_name_and_version(
                           matching_in(order, to_selector(identifier), config_binary.version))
                  ELSE RNone
    ELSE RNone

(* ---------------------- global command resolution --------------------- *)

NoBinding == [kind |-> "None", identifier |-> [owner |-> NoOwner, name |-> "", version |-> 0]]
PathBinding == [kind |-> "Path", identifier |-> [owner |-> NoOwner, name |-> "", version |-> 0]]
BvmBinding(identifier) == [kind |-> "Bvm", identifier |-> identifier]

\* PluginsManifest::get_global_binary_location
get_global_binary_location(command_name) ==
    IF command_name \in DOMAIN globals THEN globals[command_name] ELSE NoBinding

\* PluginsManifest::get_binaries_with_command
binaries_with_command(command_name) ==
    {b \in binaries : \E i \in 1..Len(b.commands) : b.commands[i].name = command_name}

\* What the Environment answers: the lookup of an executable on the PATH
\* (outside the shims) finds one, finds none or fails; the data directory
\* the plugin directories live in is available or not.
Environments ==
    [path_executable : {"Some", "None", "Err"}, data_dir_ok : BOOLEAN]

\* utils::get_path_executable_path: Result<Option<PathBuf>, ErrBox>
get_path_executable_path(environment, command_name) ==
    CASE environment.path_executable = "Some" -> ROkPath(<<"usr", "bin", command_name>>)
      [] environment.path_executable = "None" -> RNone
      [] OTHER -> RErr("Environment", <<>>)

\* get_plugin_dir: Result<PathBuf, ErrBox>
get_plugin_dir(environment, b) ==
    IF environment.data_dir_ok
    THEN ROkPath(<<"data", "binaries", b.owner, b.name, VersionString(b.version)>>)
    ELSE RErr("Environment", <<>>)

\* PathBuf::join of a relative path
join(dir, relative) == dir \o relative

\* item.commands.iter().filter(|c| &c.name == command_name).next()
RECURSIVE first_command(_, _, _)
first_command(commands, i, command_name) ==
    IF i > Len(commands) THEN {}
    ELSE IF commands[i].name = command_name THEN {commands[i]}
    ELSE first_command(commands, i + 1, command_name)

\* The value of each branch is <<result, calls made on the environment>>.

\* GlobalBinaryLocation::Path
path_branch(environment, command_name) ==
    LET on_path == get_path_executable_path(environment, command_name)
    IN  IF on_path.kind = "Err" THEN <<on_path, <<"get_path_executable_path">> >>
        ELSE IF on_path.kind = "Ok" THEN <<on_path, <<"get_path_executable_path">> >>
        ELSE <<RErr("OnlyShimOnPath", <<>>), <<"get_path_executable_path">> >>

\* GlobalBinaryLocation::Bvm(identifier), the identifier installed as item
bvm_found(environment, command_name, item) ==
    LET plugin_cache_dir == get_plugin_dir(environment, item)
        command == first_command(item.commands, 1, command_name)
    IN  IF plugin_cache_dir.kind = "Err"
        THEN <<plugin_cache_dir, <<"get_plugin_dir">> >>
        ELSE IF command = {}
        THEN <<RPanic("Expected to have command."), <<"get_plugin_dir">> >>
        ELSE <<ROkPath(join(plugin_cache_dir.path, (CHOOSE c \in command : TRUE).path)),
               <<"get_plugin_dir">> >>

\* Mutant: a stale binding falls back to the executable on the PATH.
bvm_branch_stale_uses_path(environment, command_name, identifier) ==
    IF get_binary(identifier) # {}
    THEN bvm_found(environment, command_name, CHOOSE b \in get_binary(identifier) : TRUE)
    ELSE path_branch(environment, command_name)

\* GlobalBinaryLocation::Bvm(identifier)
bvm_branch(environment, command_name, identifier) ==
    IF get_binary(identifier) # {}
    THEN bvm_found(environment, command_name, CHOOSE b \in get_binary(identifier) : TRUE)
    ELSE <<RErr("StaleBinding", <<>>), <<>> >>

\* Mutant: the installed binaries are reported before the PATH is looked up.
unbound_branch_installed_first(environment, command_name, with_command) ==
    LET on_path == get_path_executable_path(environment, command_name)
    IN  IF Len(with_command) # 0
        THEN <<RErr("NoGlobalVersion", display_binaries_versions(with_command)), <<>> >>
        ELSE IF on_path.kind = "Err" THEN <<on_path, <<"get_path_executable_path">> >>
        ELSE IF on_path.kind = "Ok" THEN <<on_path, <<"get_path_executable_path">> >>
        ELSE <<RErr("CommandNotFound", <<>>), <<"get_path_executable_path">> >>

\* No global location; with_command is what get_binaries_with_command returned.
unbound_branch(environment, command_name, with_command) ==
    LET on_path == get_path_executable_path(environment, command_name)
    IN  IF on_path.kind = "Err" THEN <<on_path, <<"get_path_executable_path">> >>
        ELSE IF on_path.kind = "Ok" THEN <<on_path, <<"get_path_executable_path">> >>
        ELSE IF Len(with_command) = 0
             THEN <<RErr("CommandNotFound", <<>>), <<"get_path_executable_path">> >>
             ELSE <<RErr("NoGlobalVersion", display_binaries_versions(with_command)),
                    <<"get_path_executable_path">> >>

\* Mutant: an executable on the PATH is preferred to the bound binary.
get_global_binary_file_name_path_first(environment, command_name, with_command) ==
    LET location == get_global_binary_location(command_name)
        on_path == get_path_executable_path(environment, command_name)
    IN  CASE location.kind = "Path" -> path_branch(environment, command_name)
          [] location.kind = "Bvm" ->
                IF on_path.kind = "Ok" THEN <<on_path, <<"get_path_executable_path">> >>
                ELSE bvm_branch(environment, command_name, location.identifier)
          [] OTHER -> unbound_branch(environment, command_name, with_command)

get_global_binary_file_name(environment, command_name, with_command) ==
    LET location == get_global_binary_location(command_name)
    IN  CASE location.kind = "Path" -> path_branch(environment, command_name)
          [] location.kind = "Bvm" -> bvm_branch(environment, command_name, location.identifier)
          [] OTHER -> unbound_branch(environment, command_name, with_command)

(* --------------------------- manifest snapshots ----------------------- *)

FmtA == [name |-> "fmt", path |-> <<"bin", "fmt">>]
FmtB == [name |-> "fmt", path |-> <<"fmt.exe">>]
LintC == [name |-> "lint", path |-> <<"bin", "lint">>]

\* The command lists an installed binary may carry.
CommandLists == {<<FmtA>>, <<LintC>>, <<LintC, FmtB>>}

Urls == {"https://a/plugin.json", "https://b/plugin.json"}

\* The sets of at most k elements of S.
RECURSIVE SubsetsUpTo(_, _)
SubsetsUpTo(S, k) ==
    IF k = 0 THEN {{}}
    ELSE LET smaller == SubsetsUpTo(S, k - 1)
         IN  smaller \cup {bs \cup {b} : bs \in smaller, b \in S}

\* At most MaxBinaries installed binaries, one per identifier.
Manifests(identifiers, lists) ==
    LET items == {[owner |-> i.owner, name |-> i.name, version |-> i.version, commands |-> l] :
                     i \in identifiers, l \in lists}
    IN  {bs \in SubsetsUpTo(items, MaxBinaries) :
            \A a, b \in bs : get_identifier(a) = get_identifier(b) => a = b}

\* No association, or one url associated with an identifier (installed or not).
UrlTables ==
    {<<>>} \cup {[u \in {url} |-> identifier] : url \in Urls, identifier \in BinaryIdentifiers}

\* No binding, or one command bound to the PATH or to an identifier.
GlobalTables(identifiers) ==
    {<<>>} \cup {[c \in {command_name} |-> location] :
                    command_name \in CommandNames,
                    location \in {PathBinding} \cup {BvmBinding(i) : i \in identifiers}}

\* Candidate vectors handed to get_latest_binary: the installed binaries in any
\* number and order, none twice.
Candidates == UNION {Orderings(S) : S \in SUBSET binaries}

ConfigFileBinaries == [path : Urls, version : VersionSelectors \cup {NoVersion}]

(* ------------------------------ actions ------------------------------- *)

Start(manifests, url_tables, global_tables) ==
    /\ binaries \in manifests
    /\ urls \in url_tables
    /\ globals \in global_tables
    /\ pc = "call"
    /\ env_calls = <<>>
    /\ result = RNone

Return(value, calls) ==
    /\ pc' = "done"
    /\ result' = value
    /\ env_calls' = calls
    /\ UNCHANGED <<binaries, urls, globals, op, args>>

CallGetBinaryWithNameAndVersion ==
    /\ pc = "call"
    /\ op = "get_binary_with_name_and_version"
    /\ \E matching \in Orderings(binaries_matching_name_and_version(args.name_selector, args.version_selector)),
          named \in Orderings(binaries_matching_name(args.name_selector)) :
         Return(get_binary_with_name_and_version(matching, named), <<>>)

CallGetLatestBinaryMatchingNameAndVersion ==
    /\ pc = "call"
    /\ op = "get_latest_binary_matching_name_and_version"
    /\ \E matching \in Orderings(binaries_matching_name_and_version(args.name_selector, args.version_selector)) :
         Return(get_latest_binary_matching_name_and_version(matching), <<>>)

CallGetLatestBinary ==
    /\ pc = "call"
    /\ op = "get_latest_binary"
    /\ Return(get_latest_binary(args.binaries), <<>>)

SelectorCalls ==
    [name_selector : NameSelectors, version_selector : VersionSelectors]

InitLookup ==
    /\ Start(Manifests(BinaryIdentifiers, {<<FmtA>>}), {<<>>}, {<<>>})
    /\ \/ /\ op \in {"get_binary_with_name_and_version",
                     "get_latest_binary_matching_name_and_version"}
          /\ args \in SelectorCalls
       \/ /\ op = "get_latest_binary"
          /\ args \in [binaries : Candidates]

NextLookup ==
    \/ CallGetBinaryWithNameAndVersion
    \/ CallGetLatestBinaryMatchingNameAndVersion
    \/ CallGetLatestBinary

SpecLookup == InitLookup /\ [][NextLookup]_vars

CallGetInstalledBinaryIfAssociatedConfigFileBinary ==
    /\ pc = "call"
    /\ op = "get_installed_binary_if_associated_config_file_binary"
    /\ \E order \in Orderings(binaries) :
         Return(get_installed_binary_if_associated_config_file_binary(args.config_binary, order), <<>>)

InitConfig ==
    /\ Start(Manifests(BinaryIdentifiers, {<<FmtA>>}), UrlTables, {<<>>})
    /\ op = "get_installed_binary_if_associated_config_file_binary"
    /\ args \in [config_binary : ConfigFileBinaries]

NextConfig == CallGetInstalledBinaryIfAssociatedConfigFileBinary

SpecConfig == InitConfig /\ [][NextConfig]_vars

CallGetGlobalBinaryFileName ==
    /\ pc = "call"
    /\ op = "get_global_binary_file_name"
    /\ \E with_command \in Orderings(binaries_with_command(args.command_name)) :
         LET r == get_global_binary_file_name(args.environment, args.command_name, with_command)
         IN  Return(r[1], r[2])

GlobalIdentifiers == {i \in BinaryIdentifiers : i.name = "fmt"}

InitGlobal ==
    /\ Start(Manifests(GlobalIdentifiers, CommandLists), {<<>>}, GlobalTables(GlobalIdentifiers))
    /\ op = "get_global_binary_file_name"
    /\ args \in [environment : Environments, command_name : CommandNames]

NextGlobal == CallGetGlobalBinaryFileName

SpecGlobal == InitGlobal /\ [][NextGlobal]_vars

(* ------------------------------- claims ------------------------------- *)

Done(operation) == pc = "done" /\ op = operation

OwnersOf(S) == {b.owner : b \in S}

\* The installed binaries matching the call's name and version selectors.
MatchingBoth == binaries_matching_name_and_version(args.name_selector, args.version_selector)

\* The installed binaries matching the call's name selector.
MatchingName == binaries_matching_name(args.name_selector)

\* b is in S and no member of S compares greater.
MaximalIn(b, S) == b \in S /\ \A other \in S : cmp(b, other) # Less

\* line is the listing's entry for binary b: its version, after its name if
\* the entry carries one.
EntryFor(line, b) ==
    /\ Len(line) \in {1, 3}
    /\ line[Len(line)] = VersionString(b.version)
    /\ Len(line) = 3 => line[1] = b.owner /\ line[2] = b.name

\* lines holds one entry per member of S, in ascending order of the members.
ListingOf(lines, S) ==
    \E s \in Orderings(S) :
        /\ \A i, j \in 1..Len(s) : i < j => cmp(s[i], s[j]) = Less
        /\ Len(lines) = Len(s)
        /\ \A i \in 1..Len(s) : EntryFor(lines[i], s[i])

\* C1: whenever the binaries matching both the name and the version selector
\* have at least two distinct owners, get_binary_with_name_and_version
\* returns the AmbiguousOwner error and no binary, however many match.
C1_AmbiguousOwner ==
    (Done("get_binary_with_name_and_version") /\ Cardinality(OwnersOf(MatchingBoth)) >= 2)
        => /\ result.kind = "Err"
           /\ result.error = "AmbiguousOwner"
           /\ result.item = NoItem

C1_Witness ==
    /\ Done("get_binary_with_name_and_version")
    /\ Cardinality(OwnersOf(MatchingBoth)) >= 2
    /\ \E a, b \in MatchingBoth : a.owner # b.owner /\ a.version # b.version
    /\ result.error = "AmbiguousOwner"

\* C2: whenever the binaries matching both selectors are not empty and share
\* one owner, get_binary_with_name_and_version succeeds with a member of that
\* set that no other member compares greater than.
C2_LatestOfSingleOwner ==
    (Done("get_binary_with_name_and_version")
        /\ MatchingBoth # {} /\ Cardinality(OwnersOf(MatchingBoth)) = 1)
        => /\ result.kind = "Ok"
           /\ MaximalIn(result.item, MatchingBoth)

C2_Witness ==
    /\ Done("get_binary_with_name_and_version")
    /\ Cardinality(MatchingBoth) >= 2
    /\ Cardinality(OwnersOf(MatchingBoth)) = 1
    /\ result.kind = "Ok"
    /\ \E b \in MatchingBoth : cmp(b, result.item) = Less

\* C3: when no installed binary matches both selectors, the call fails: with
\* NotFound if none matches the name either, else with VersionMismatch and a
\* listing of one entry per binary matching the name, in ascending order.
C3_NoVersionMatch ==
    (Done("get_binary_with_name_and_version") /\ MatchingBoth = {})
        => /\ result.kind = "Err"
           /\ MatchingName = {} => result.error = "NotFound"
           /\ MatchingName # {} => /\ result.error = "VersionMismatch"
                                   /\ ListingOf(result.lines, MatchingName)

C3_Witness ==
    /\ Done("get_binary_with_name_and_version")
    /\ MatchingBoth = {}
    /\ Cardinality(MatchingName) >= 2
    /\ result.error = "VersionMismatch"
    /\ Len(result.lines) = Cardinality(MatchingName)

\* The members of a candidate vector.
Elements(bs) == {bs[i] : i \in 1..Len(bs)}

\* C4: get_latest_binary returns none for the empty vector, the element for
\* a singleton, and for a non-empty vector of one owner an element that no
\* element compares greater than, in whatever order the candidates come;
\* get_latest_binary_matching_name_and_version does so for the matching set.
C4_Latest ==
    /\ Done("get_latest_binary") =>
        /\ Len(args.binaries) = 0 => result = RNone
        /\ Len(args.binaries) = 1 => result = RSome(args.binaries[1])
        /\ (Len(args.binaries) >= 1 /\ Cardinality(OwnersOf(Elements(args.binaries))) = 1)
              => result.kind = "Some" /\ MaximalIn(result.item, Elements(args.binaries))
    /\ Done("get_latest_binary_matching_name_and_version") =>
        /\ MatchingBoth = {} => result = RNone
        /\ Cardinality(OwnersOf(MatchingBoth)) = 1
              => result.kind = "Some" /\ MaximalIn(result.item, MatchingBoth)

C4_Witness ==
    /\ Done("get_latest_binary")
    /\ Len(args.binaries) >= 2
    /\ Cardinality(OwnersOf(Elements(args.binaries))) = 1
    /\ result.kind = "Some"
    /\ result.item = args.binaries[1]
    /\ cmp(args.binaries[2], args.binaries[1]) = Less

\* C5: a config file binary whose path has no association in the manifest
\* resolves to none, with or without a version selector.
C5_NoAssociation ==
    (Done("get_installed_binary_if_associated_config_file_binary")
        /\ args.config_binary.path \notin DOMAIN urls)
        => result = RNone

C5_Witness ==
    /\ Done("get_installed_binary_if_associated_config_file_binary")
    /\ args.config_binary.path \notin DOMAIN urls
    /\ DOMAIN urls # {}
    /\ args.config_binary.version.present
    /\ \E b \in binaries : version_matches(args.config_binary.version, b)
    /\ result = RNone

\* The binaries the version fallback of the config resolution chooses from.
ConfigMatching ==
    binaries_matching_name_and_version(
        to_selector(urls[args.config_binary.path]), args.config_binary.version)

\* C6: with the path associated to an identifier, the installed entry of
\* exactly that identifier is the result whenever there is one; without one
\* the result is the latest binary matching the identifier's name and the
\* version selector if the config has a selector, and none otherwise.
C6_ExactEntryWins ==
    (Done("get_installed_binary_if_associated_config_file_binary")
        /\ args.config_binary.path \in DOMAIN urls)
        => LET identifier == urls[args.config_binary.path]
           IN  /\ get_binary(identifier) # {}
                    => result.kind = "Some" /\ result.item \in get_binary(identifier)
               /\ (get_binary(identifier) = {} /\ ~args.config_binary.version.present)
                    => result = RNone
               /\ (get_binary(identifier) = {} /\ args.config_binary.version.present)
                    => IF ConfigMatching = {} THEN result = RNone
                       ELSE result.kind = "Some" /\ MaximalIn(result.item, ConfigMatching)

C6_Witness ==
    /\ Done("get_installed_binary_if_associated_config_file_binary")
    /\ args.config_binary.path \in DOMAIN urls
    /\ get_binary(urls[args.config_binary.path]) # {}
    /\ args.config_binary.version.present
    /\ result.kind = "Some"
    /\ get_identifier(result.item) = urls[args.config_binary.path]
    /\ ~version_matches(args.config_binary.version, result.item)
    /\ \E b \in ConfigMatching : cmp(result.item, b) = Less

\* C6, the fallback: no entry of the identifier itself, several binaries
\* matching the version selector, and one of them is the result.
C6_WitnessFallback ==
    /\ Done("get_installed_binary_if_associated_config_file_binary")
    /\ args.config_binary.path \in DOMAIN urls
    /\ get_binary(urls[args.config_binary.path]) = {}
    /\ Cardinality(ConfigMatching) >= 2
    /\ result.kind = "Some"

\* The global location bound to the command of the call.
Binding == get_global_binary_location(args.command_name)

\* The installed binary the command is bound to, if installed.
BoundItems == get_binary(Binding.identifier)

\* The commands of item b registered under the command name of the call.
Registered(b) ==
    {b.commands[i] : i \in {j \in 1..Len(b.commands) : b.commands[j].name = args.command_name}}

\* The command is bound to an installed binary that lists it.
BoundAndListed ==
    /\ Done("get_global_binary_file_name")
    /\ Binding.kind = "Bvm"
    /\ \E b \in BoundItems : Registered(b) # {}

\* The result is the plugin directory of the bound binary joined with the
\* path registered for the command.
IsBoundCommandPath ==
    /\ result.kind = "Ok"
    /\ \E b \in BoundItems : \E c \in Registered(b) :
          result.path = <<"data", "binaries", b.owner, b.name, VersionString(b.version)>> \o c.path

PathLookups == {i \in 1..Len(env_calls) : env_calls[i] = "get_path_executable_path"}

\* C7 as stated: a command bound to an installed binary that lists it
\* resolves to the join of the binary's plugin directory and the command's
\* registered path, and the PATH is not looked up.
C7_BoundToBvmAlwaysResolves ==
    BoundAndListed => IsBoundCommandPath /\ PathLookups = {}

\* C7: a command bound to an installed binary that lists it resolves to the
\* join of the binary's plugin directory and the command's registered path
\* whenever get_plugin_dir succeeds, and to get_plugin_dir's error when it
\* fails; the PATH is not looked up in either case.
C7_BoundToBvm ==
    BoundAndListed =>
        /\ PathLookups = {}
        /\ args.environment.data_dir_ok => IsBoundCommandPath
        /\ ~args.environment.data_dir_ok => result = RErr("Environment", <<>>)

C7_Witness ==
    /\ BoundAndListed
    /\ args.environment.data_dir_ok
    /\ args.environment.path_executable = "Some"
    /\ IsBoundCommandPath
    /\ \E b \in BoundItems : Len(b.commands) = 2

\* C8 as stated: a command bound to an installed binary that does not list
\* it yields an error returned to the caller, which is neither the stale
\* binding error nor a not-found error.
C8_MissingCommandIsReturnedError ==
    (/\ Done("get_global_binary_file_name")
     /\ Binding.kind = "Bvm"
     /\ BoundItems # {}
     /\ \A b \in BoundItems : Registered(b) = {})
        => /\ result.kind = "Err"
           /\ result.error \notin {"StaleBinding", "CommandNotFound", "NotFound"}

\* C9: a command bound to an identifier that is not installed yields the
\* StaleBinding error: no panic, no PATH lookup, no other installed binary.
C9_StaleBinding ==
    (Done("get_global_binary_file_name") /\ Binding.kind = "Bvm" /\ BoundItems = {})
        => /\ result = RErr("StaleBinding", <<>>)
           /\ env_calls = <<>>

C9_Witness ==
    /\ Done("get_global_binary_file_name")
    /\ Binding.kind = "Bvm"
    /\ BoundItems = {}
    /\ args.environment.path_executable = "Some"
    /\ binaries_with_command(args.command_name) # {}
    /\ result.error = "StaleBinding"

Unbound == Done("get_global_binary_file_name") /\ Binding.kind = "None"

\* What an unbound command yields when the PATH lookup found no executable.
UnboundWithoutPathExecutable ==
    /\ result.kind = "Err"
    /\ binaries_with_command(args.command_name) = {} => result.error = "CommandNotFound"
    /\ binaries_with_command(args.command_name) # {}
          => /\ result.error = "NoGlobalVersion"
             /\ ListingOf(result.lines, binaries_with_command(args.command_name))

\* C10 as stated: an unbound command resolves to the executable the PATH
\* lookup finds; otherwise it fails with the error naming the installed
\* binaries that provide the command, or with the plain not-found error when
\* there are none.
C10_UnboundPathElseInstalled ==
    Unbound =>
        IF args.environment.path_executable = "Some"
        THEN result = ROkPath(<<"usr", "bin", args.command_name>>)
        ELSE UnboundWithoutPathExecutable

\* C10: an unbound command resolves to the executable the PATH lookup finds
\* and fails with the lookup's error when the lookup fails; when the lookup
\* finds none it fails with the error listing exactly the installed binaries
\* that provide the command, or with the plain not-found error when there
\* are none.  It never resolves to a path under the plugin directories.
C10_Unbound ==
    Unbound =>
        /\ args.environment.path_executable = "Some"
              => result = ROkPath(<<"usr", "bin", args.command_name>>)
        /\ args.environment.path_executable = "Err"
              => result = RErr("Environment", <<>>)
        /\ args.environment.path_executable = "None" => UnboundWithoutPathExecutable

C10_Witness ==
    /\ Unbound
    /\ args.environment.path_executable = "None"
    /\ Cardinality(OwnersOf(binaries_with_command(args.command_name))) = 2
    /\ result.error = "NoGlobalVersion"
    /\ Len(result.lines) = 2

\* C10, a single candidate: one of two installed binaries provides the
\* command and the listing holds one entry.
C10_WitnessSingle ==
    /\ Unbound
    /\ args.environment.path_executable = "None"
    /\ Cardinality(binaries_with_command(args.command_name)) = 1
    /\ Cardinality(binaries) = 2
    /\ Len(result.lines) = 1

====
